---- MODULE Spec2Model ----
(***************************************************************************)
(* Model of analyzer/analyze.py: the per-channel signal analysis           *)
(* (gap filling, sampling-rate estimate, uniform resampling, spectrum,     *)
(* harmonics, shape heuristic) and the main run that drives it.            *)
(*                                                                         *)
(* Timestamps and the time base are IEEE-754 binary64 values, as numpy     *)
(* computes them: the sample count is the floor of a rounded quotient, so  *)
(* the rounding decides it.  A binary64 value is modelled bit-exactly as   *)
(* sign * (hi * 2^27 + lo) * 2^e with a 53-bit significand.                *)
(***************************************************************************)
EXTENDS Integers, Sequences, FiniteSets, TLC

(***************************************************************************)
(* binary64 arithmetic (numpy float64 / Python float)                      *)
(***************************************************************************)
RECURSIVE Pow2(_)
Pow2(k) == IF k <= 0 THEN 1 ELSE 2 * Pow2(k - 1)

\* limb base 2^27 of the 53-bit significand: hi * Limb + lo
Limb == 128 * 1024 * 1024
\* hi of a normalised significand lies in [HiMin, 2 * HiMin), HiMin = 2^25
HiMin == 32 * 1024 * 1024

RECURSIVE BitLen(_)
BitLen(k) == IF k <= 0 THEN 0 ELSE 1 + BitLen(k \div 2)

FZero == [k |-> "fin", s |-> 1, hi |-> 0, lo |-> 0, e |-> 0]
FInf(sg) == [k |-> "inf", s |-> sg, hi |-> 0, lo |-> 0, e |-> 0]
FNaN == [k |-> "nan", s |-> 1, hi |-> 0, lo |-> 0, e |-> 0]

IsZero(a) == a.k = "fin" /\ a.hi = 0 /\ a.lo = 0
IsFinite(a) == a.k = "fin"

\* float(k) for an integer |k| < 2^26: exact
FromInt(k) ==
    IF k = 0 THEN FZero
    ELSE LET m == IF k < 0 THEN 0 - k ELSE k
             L == BitLen(m)
         IN  [k |-> "fin", s |-> IF k < 0 THEN 0 - 1 ELSE 1,
              hi |-> m * Pow2(26 - L), lo |-> 0, e |-> L - 53]

\* (h, l) >= (bh, bl) on two-limb naturals
GeBig(h, l, bh, bl) == h > bh \/ (h = bh /\ l >= bl)

\* the 53-bit significand (mh, ml), possibly rounded up past 2^53
Renorm(sg, mh, ml, ex) ==
    IF mh + (ml \div Limb) >= 2 * HiMin
    THEN [k |-> "fin", s |-> sg, hi |-> HiMin, lo |-> 0, e |-> ex + 1]
    ELSE [k |-> "fin", s |-> sg, hi |-> mh + (ml \div Limb), lo |-> ml % Limb,
          e |-> ex]

\* round the 53 bits (mh, ml) with a guard bit and a sticky flag to nearest,
\* ties to even; ex is the exponent of the result
RoundHalf(sg, mh, ml, guard, sticky, ex) ==
    IF guard = 1 /\ (sticky \/ ml % 2 = 1)
    THEN Renorm(sg, mh, ml + 1, ex)
    ELSE Renorm(sg, mh, ml, ex)

\* Long division in base 2^14 (Knuth's algorithm D).  A significand times 8
\* is four digits <<x3, x2, x1, x0>> with x3 >= Dig / 2.
Dig == 128 * 128

Digits4(a) ==
    <<(4 * a.hi + (a.lo \div (Limb \div 4))) \div Dig,
      (4 * a.hi + (a.lo \div (Limb \div 4))) % Dig,
      (a.lo \div 2048) % Dig,
      (a.lo % 2048) * 8>>

GeDigits(a, b) ==
    \/ a[1] > b[1]
    \/ a[1] = b[1] /\ a[2] > b[2]
    \/ a[1] = b[1] /\ a[2] = b[2] /\ a[3] > b[3]
    \/ a[1] = b[1] /\ a[2] = b[2] /\ a[3] = b[3] /\ a[4] >= b[4]

\* carry propagation over signed digits t4 .. t0, lowest first
Carry4(t4, t3, n2, n1, n0) == <<t4 + (t3 \div Dig), t3 % Dig, n2, n1, n0>>
Carry3(t4, t3, t2, n1, n0) == Carry4(t4, t3 + (t2 \div Dig), t2 % Dig, n1, n0)
Carry2(t4, t3, t2, t1, n0) == Carry3(t4, t3, t2 + (t1 \div Dig), t1 % Dig, n0)
Carry1(t4, t3, t2, t1, t0) == Carry2(t4, t3, t2, t1 + (t0 \div Dig), t0 % Dig)

\* x - y for x >= y
SubDigits(a, b) ==
    SubSeq(Carry1(0, a[1] - b[1], a[2] - b[2], a[3] - b[3], a[4] - b[4]), 2, 5)

\* r * Dig - q * b, as <<top, n3, n2, n1, n0>>; top < 0 when q is too large
MulSub(r, b, q) ==
    Carry1(r[1], r[2] - q * b[1], r[3] - q * b[2], r[4] - q * b[3], 0 - q * b[4])

\* the estimate of the next quotient digit: at most 2 too large
QHat(r, b) ==
    IF (r[1] * Dig + r[2]) \div b[1] >= Dig THEN Dig - 1
    ELSE (r[1] * Dig + r[2]) \div b[1]

RECURSIVE AddBack(_, _, _)
AddBack(q, t, b) ==
    IF t[1] < 0
    THEN AddBack(q - 1,
                 Carry1(t[1], t[2] + b[1], t[3] + b[2], t[4] + b[3], t[5] + b[4]),
                 b)
    ELSE <<q, SubSeq(t, 2, 5)>>

DigitOf(r, b, q) == AddBack(q, MulSub(r, b, q), b)

\* n more quotient digits of r / b, r < b: <<digits, remainder>>
RECURSIVE DivDigits(_, _, _, _)
DivNext(d, b, n, acc) == DivDigits(d[2], b, n, Append(acc, d[1]))
DivDigits(r, b, n, acc) ==
    IF n = 0 THEN <<acc, r>>
    ELSE DivNext(DigitOf(r, b, QHat(r, b)), b, n - 1, acc)

\* quotient H * 2^28 + L of 57 bits (leading digit 1): keep 53, round
RoundHi(sg, H, L, sticky, ex) ==
    RoundHalf(sg, H \div 8, (H % 8) * (Limb \div 8) + (L \div 16),
              (L \div 8) % 2, sticky \/ L % 8 # 0, ex)

\* quotient H * 2^28 + L of 56 bits (leading digit 0): keep 53, round
RoundLo(sg, H, L, sticky, ex) ==
    RoundHalf(sg, H \div 4, (H % 4) * (Limb \div 4) + (L \div 8),
              (L \div 4) % 2, sticky \/ L % 4 # 0, ex)

\* d = <<four quotient digits, remainder>>
RoundDiv(sg, lead, d, ex) ==
    IF lead = 1
    THEN RoundHi(sg, 2 * Limb + d[1][1] * Dig + d[1][2], d[1][3] * Dig + d[1][4],
                 d[2] # <<0, 0, 0, 0>>, ex - 52)
    ELSE RoundLo(sg, d[1][1] * Dig + d[1][2], d[1][3] * Dig + d[1][4],
                 d[2] # <<0, 0, 0, 0>>, ex - 53)

DivSig(sg, num, den, ex) ==
    IF GeDigits(num, den)
    THEN RoundDiv(sg, 1, DivDigits(SubDigits(num, den), den, 4, <<>>), ex)
    ELSE RoundDiv(sg, 0, DivDigits(num, den, 4, <<>>), ex)

\* a / b, correctly rounded; x/0 is inf (nan for 0/0) as numpy yields with a
\* warning, not an exception
FDiv(a, b) ==
    IF a.k = "nan" \/ b.k = "nan" THEN FNaN
    ELSE IF a.k = "inf" THEN (IF b.k = "inf" THEN FNaN ELSE FInf(a.s * b.s))
    ELSE IF b.k = "inf" THEN FZero
    ELSE IF IsZero(b) THEN (IF IsZero(a) THEN FNaN ELSE FInf(a.s * b.s))
    ELSE IF IsZero(a) THEN FZero
    ELSE DivSig(a.s * b.s, Digits4(a), Digits4(b), a.e - b.e)

\* round a 54-bit value (53 bits and a guard bit) with a sticky flag
RoundQ(sg, qh, ql, sticky, ex) ==
    RoundHalf(sg, qh \div 2, (ql \div 2) + (qh % 2) * (Limb \div 2), ql % 2,
              sticky, ex)

\* halve (ph, pl) until it has 54 bits, keeping a sticky flag
RECURSIVE Shrink(_, _, _, _)
Shrink(ph, pl, sticky, ex) ==
    IF ph < 2 * 2 * HiMin THEN <<ph, pl, sticky, ex>>
    ELSE Shrink(ph \div 2, (pl \div 2) + (ph % 2) * (Limb \div 2),
                sticky \/ pl % 2 = 1, ex + 1)

\* sh = <<hi, lo, sticky, exponent>> of a 54-bit product
RoundMul(sg, sh) == RoundQ(sg, sh[1], sh[2], sh[3], sh[4] + 1)

\* the product (ph, pl) * 2^ex, doubled so that it has at least 54 bits
MulNorm(sg, ph, pl, ex) ==
    RoundMul(sg, Shrink(2 * ph + ((2 * pl) \div Limb), (2 * pl) % Limb, FALSE,
                        ex - 1))

\* j * a for an integer 0 <= j <= 15, correctly rounded
FMulInt(j, a) ==
    IF a.k = "nan" THEN FNaN
    ELSE IF a.k = "inf" THEN (IF j = 0 THEN FNaN ELSE a)
    ELSE IF j = 0 \/ IsZero(a) THEN FZero
    ELSE MulNorm(a.s, j * a.hi + ((j * a.lo) \div Limb), (j * a.lo) % Limb, a.e)

IsNeg(a) == a.s < 0 /\ ~IsZero(a)

\* |a| < |b| on finite values
MagLess(a, b) ==
    IF IsZero(b) THEN FALSE
    ELSE IF IsZero(a) THEN TRUE
    ELSE a.e < b.e \/ (a.e = b.e /\ ~GeBig(a.hi, a.lo, b.hi, b.lo))

\* a < b on finite values
FLess(a, b) ==
    IF IsNeg(a) /\ ~IsNeg(b) THEN TRUE
    ELSE IF ~IsNeg(a) /\ IsNeg(b) THEN FALSE
    ELSE IF IsNeg(a) THEN MagLess(b, a)
    ELSE MagLess(a, b)

\* the integer part of |a| and whether a fraction is left, for |a| < 2^26
IntPart(hi, lo, sh) ==
    IF sh >= 26 THEN <<0, TRUE>>
    ELSE <<hi \div Pow2(sh), lo # 0 \/ hi % Pow2(sh) # 0>>

FloorOf(sg, ip) ==
    IF sg > 0 THEN ip[1] ELSE IF ip[2] THEN 0 - ip[1] - 1 ELSE 0 - ip[1]

\* int(np.floor(a)) for a finite a with |a| < 2^26
FFloor(a) ==
    IF IsZero(a) THEN 0 ELSE FloorOf(a.s, IntPart(a.hi, a.lo, 0 - a.e - 27))

(***************************************************************************)
(* Bounds of the inputs                                                    *)
(***************************************************************************)
\* longest timestamp series / channel
MaxLen == 4
\* largest raw sample value
MaxVal == 3
\* largest step between successive timestamps, in ticks (the smallest is -1)
MaxDiff == 2
\* largest spectrum magnitude, in units of 1e-12
MaxMag == 2
\* longest resampled series handed to the spectral stage on its own
MaxN == 8

\* the missing marker of a numeric channel (np.nan); samples are >= 0
NaN == 0 - 1
\* a non-numeric raw value of the log ('--')
Dash == 0 - 2

RECURSIVE Gcd(_, _)
Gcd(a, b) == IF b = 0 THEN a ELSE Gcd(b, a % b)
RECURSIVE LcmUpTo(_)
LcmUpTo(n) == IF n <= 1 THEN 1 ELSE LET l == LcmUpTo(n - 1) IN (l * n) \div Gcd(l, n)

\* Sample values are held as multiples of 1/Den, so that every linear
\* interpolation between samples at integer indices is exact.
Den == LcmUpTo(MaxLen)

(***************************************************************************)
(* to_numeric                                                              *)
(***************************************************************************)
to_numeric(arr) ==
    [i \in 1..Len(arr) |-> IF arr[i] = Dash THEN NaN ELSE arr[i] * Den]

(***************************************************************************)
(* np.interp(xq, xp, fp, left, right) at one query point xq, xp increasing *)
(***************************************************************************)
\* an interpolation that leaves points left of the first sample missing
InterpLeftNaN(xq, xp, fp, left, right) ==
    IF xq > xp[Len(xp)] THEN right
    ELSE IF xq < xp[1] THEN NaN
    ELSE IF xq = xp[Len(xp)] THEN fp[Len(xp)]
    ELSE LET j == CHOOSE k \in 1..(Len(xp) - 1) : xp[k] <= xq /\ xq < xp[k + 1]
         IN  IF xp[j] = xq THEN fp[j]
             ELSE fp[j] + ((fp[j + 1] - fp[j]) * (xq - xp[j])) \div (xp[j + 1] - xp[j])

Interp(xq, xp, fp, left, right) ==
    IF xq > xp[Len(xp)] THEN right
    ELSE IF xq < xp[1] THEN left
    ELSE IF xq = xp[Len(xp)] THEN fp[Len(xp)]
    ELSE LET j == CHOOSE k \in 1..(Len(xp) - 1) : xp[k] <= xq /\ xq < xp[k + 1]
         IN  IF xp[j] = xq THEN fp[j]
             ELSE fp[j] + ((fp[j + 1] - fp[j]) * (xq - xp[j])) \div (xp[j + 1] - xp[j])

(***************************************************************************)
(* analyze_signal, gap filling (lines 68-79)                               *)
(***************************************************************************)
RECURSIVE SelectIdx(_, _, _)
\* np.flatnonzero: the indices i >= from of x with isnan(x[i]) = want, ascending
SelectIdx(v, want, from) ==
    IF from > Len(v) THEN <<>>
    ELSE IF (v[from] = NaN) = want THEN <<from>> \o SelectIdx(v, want, from + 1)
    ELSE SelectIdx(v, want, from + 1)

AllNaN(v) == \A i \in 1..Len(v) : v[i] = NaN

\* x[~notnan] = np.interp(flatnonzero(~notnan), flatnonzero(notnan), x[notnan])
FillGaps(v) ==
    LET good == SelectIdx(v, FALSE, 1)
        fp == [k \in 1..Len(good) |-> v[good[k]]]
    IN  [i \in 1..Len(v) |->
            IF v[i] = NaN THEN Interp(i, good, fp, fp[1], fp[Len(fp)]) ELSE v[i]]

(***************************************************************************)
(* analyze_signal, sampling-rate estimate (lines 81-83)                    *)
(***************************************************************************)
\* np.diff
Diff(t) == [i \in 1..(Len(t) - 1) |-> t[i + 1] - t[i]]

\* np.median of a non-empty sequence of integers: the middle element, or the
\* mean of the two middle elements
Median(d) ==
    LET srt == SortSeq(d, LAMBDA a, b : a < b)
        n == Len(d)
    IN  IF n % 2 = 1 THEN FromInt(srt[(n + 1) \div 2])
        ELSE FDiv(FromInt(srt[n \div 2] + srt[(n \div 2) + 1]), FromInt(2))

\* dt_ms = np.median(np.diff(t_ms)) if len(t_ms) > 1 else 100.0
DtMs(t) == IF Len(t) > 1 THEN Median(Diff(t)) ELSE FromInt(100)

\* fs = 1000.0 / dt_ms
EstimateFs(t) == FDiv(FromInt(1000), DtMs(t))

(***************************************************************************)
(* resample_uniform (lines 56-63)                                          *)
(***************************************************************************)
\* t[-1] of t = (t_ms - t_ms[0]) / 1000.0; t[0] is 0.0
TLast(t) == FDiv(FromInt(t[Len(t)] - t[1]), FromInt(1000))

\* np.linspace(0, stop, n)[j], 0 <= j < n: arange(n) * step with
\* step = stop / (n - 1), the last point set to stop
GridTime(j, n, stop, step) ==
    IF j = 0 THEN FZero
    ELSE IF j = n - 1 THEN stop
    ELSE FMulInt(j, step)

\* np.interp(..., left=np.nan, right=np.nan) yields nan at a grid time g
\* outside [t[0], t[-1]] = [0, last]
OutOfRange(g, last) == FLess(last, g) \/ FLess(g, FZero)

\* t_uniform = np.linspace(0, (n-1)*dt, n) and the nan flags of x_interp
Grid(n, stop, step, last) ==
    [exc |-> "none", n |-> n,
     nan |-> [j \in 1..n |-> OutOfRange(GridTime(j - 1, n, stop, step), last)]]

GridOf(n, stop, last) ==
    Grid(n, stop, IF n > 2 THEN FDiv(stop, FromInt(n - 1)) ELSE stop, last)

\* n = int(np.floor(q)) + 1 raises on a non-finite q; np.linspace raises on
\* a negative n
GridCount(q, dt, last) ==
    IF q.k = "inf" THEN [exc |-> "OverflowError", n |-> 0, nan |-> <<>>]
    ELSE IF q.k = "nan" THEN [exc |-> "ValueError", n |-> 0, nan |-> <<>>]
    ELSE IF FFloor(q) + 1 < 0
    THEN [exc |-> "ValueError", n |-> FFloor(q) + 1, nan |-> <<>>]
    ELSE GridOf(FFloor(q) + 1, FMulInt(FFloor(q), dt), last)

ResampleAt(last, dt) == GridCount(FDiv(last, dt), dt, last)

\* The outcome of resample_uniform(t_ms, x, fs): exc is the exception raised
\* ("none" when it returns), n the sample count, nan[j] whether x_interp[j] is
\* np.nan.  dt = 1.0 / fs; n = floor((t[-1] - t[0]) / dt) + 1.
resample_uniform(t, fs) == ResampleAt(TLast(t), FDiv(FromInt(1), fs))

(***************************************************************************)
(* analyze_signal, spectrum and harmonics (lines 92-118)                   *)
(* Magnitudes are multiples of 1e-12 (Eps); NaN marks np.nan.  Frequencies *)
(* are multiples of |fs| / N: xf[j] = sign(fs) * j.                        *)
(***************************************************************************)
\* if N < 4: return None
MinSamples == 4
\* for k in range(1, 9)
NumHarmonics == 8
\* 1e-12, the unit of the magnitudes
Eps == 1

HasNaN(v) == \E i \in 1..Len(v) : v[i] = NaN

\* mag[0] = 0
ZeroDC(sp) == [sp EXCEPT ![1] = 0]

\* an argmax that keeps the last maximum
ArgMaxLast(v) ==
    (CHOOSE i \in 1..Len(v) :
        /\ \A j \in 1..Len(v) : v[j] = NaN \/ v[i] = NaN \/ v[j] <= v[i]
        /\ \A j \in (i + 1)..Len(v) : v[j] # NaN /\ v[i] # NaN /\ v[j] < v[i]) - 1

\* np.argmax: the first nan if there is one, else the first maximum (0-based)
ArgMax(v) ==
    IF HasNaN(v)
    THEN (CHOOSE i \in 1..Len(v) : v[i] = NaN /\ \A j \in 1..(i - 1) : v[j] # NaN) - 1
    ELSE (CHOOSE i \in 1..Len(v) :
             /\ \A j \in 1..Len(v) : v[j] <= v[i]
             /\ \A j \in 1..(i - 1) : v[j] < v[i]) - 1

\* np.argmin: the first minimum (0-based)
ArgMin(v) ==
    (CHOOSE i \in 1..Len(v) :
        /\ \A j \in 1..Len(v) : v[i] <= v[j]
        /\ \A j \in 1..(i - 1) : v[j] > v[i]) - 1

Abs(a) == IF a < 0 THEN 0 - a ELSE a

\* xf = rfftfreq(N, 1.0/fs): N \div 2 + 1 bins
Xf(n, sgn) == [j \in 1..((n \div 2) + 1) |-> sgn * (j - 1)]

\* the bin nearest to the next multiple of the dominant frequency
NearestBinNext(xf, k, f) == ArgMin([j \in 1..Len(xf) |-> Abs(xf[j] - (k + 1) * f)])

\* idx = np.argmin(np.abs(xf - target)) with target = k * freq
NearestBin(xf, k, f) == ArgMin([j \in 1..Len(xf) |-> Abs(xf[j] - k * f)])

\* lines 109-118
HarmonicsOf(m, xf, f) ==
    IF f > 0
    THEN [k \in 1..NumHarmonics |-> m[NearestBin(xf, k, f) + 1]]
    ELSE [k \in 1..NumHarmonics |-> 0]

(***************************************************************************)
(* analyze_signal, decay exponent (lines 120-131), in units of 0.1.  The   *)
(* least-squares slope of log magnitude against log index is not          *)
(* computed: any of DecayValues may come out of np.polyfit.                *)
(***************************************************************************)
DecayValues == {0 - 16, 0 - 15, 0 - 8, 0 - 7, 0, 5}

\* np.count_nonzero(harmonics > 1e-12)
CountNonzero(h) == Cardinality({k \in 1..Len(h) : h[k] # NaN /\ h[k] > Eps})

DecayOf(h) == IF CountNonzero(h) >= 3 THEN DecayValues ELSE {0}

(***************************************************************************)
(* analyze_signal, shape heuristic (lines 133-158)                         *)
(***************************************************************************)
RECURSIVE SumStep(_, _)
\* np.sum(h[from::2]); nan when an addend is nan
SumStep(h, from) ==
    IF from > Len(h) THEN 0
    ELSE LET rest == SumStep(h, from + 2)
         IN  IF h[from] = NaN \/ rest = NaN THEN NaN ELSE h[from] + rest

\* np.max(harmonics) == 0 (a comparison with nan is false)
MaxIsZero(h) == ~HasNaN(h) /\ \A k \in 1..Len(h) : h[k] = 0

\* np.all(harmonics[1:] / (h1 + 1e-12) < 0.2)
AllSmall(h) ==
    ~HasNaN(h) /\ \A k \in 2..Len(h) : 5 * h[k] < h[1] + Eps

\* odd_energy > 2*even_energy
OddDominant(h) ==
    /\ SumStep(h, 1) # NaN
    /\ SumStep(h, 2) # NaN
    /\ SumStep(h, 1) > 2 * SumStep(h, 2)

\* a classification without the sine-like row
ShapeNoSine(h, d) ==
    IF MaxIsZero(h) THEN "flat"
    ELSE IF OddDominant(h)
    THEN (IF d < 0 - 15 THEN "triangle-like" ELSE "square-like")
    ELSE IF d < 0 - 15 THEN "triangle-like"
    ELSE IF d < 0 - 7 THEN "sawtooth-like"
    ELSE "complex/unknown"

Shape(h, d) ==
    IF MaxIsZero(h) THEN "flat"
    ELSE IF AllSmall(h) THEN "sine-like"
    ELSE IF OddDominant(h)
    THEN (IF d < 0 - 15 THEN "triangle-like" ELSE "square-like")
    ELSE IF d < 0 - 15 THEN "triangle-like"
    ELSE IF d < 0 - 7 THEN "sawtooth-like"
    ELSE "complex/unknown"

\* np.abs(rfft(x_u)): nan throughout when x_u holds a nan, else any
\* magnitudes (the transform itself is not computed)
Spectra(n, nanflags) ==
    IF \E j \in 1..Len(nanflags) : nanflags[j]
    THEN {[j \in 1..((n \div 2) + 1) |-> NaN]}
    ELSE [1..((n \div 2) + 1) -> 0..MaxMag]

(***************************************************************************)
(* analyze_signal as a whole (lines 66-172)                                *)
(***************************************************************************)
\* The stages of the analysis, in the order the code runs them
StageFill == <<"fill">>
StageResample == <<"fill", "rate", "resample">>
StageDetrend == <<"fill", "rate", "resample", "detrend">>
StageAll == <<"fill", "rate", "resample", "detrend", "spectrum", "harmonics",
              "decay", "classify">>

\* What a call leaves behind: the exception it raised ("none" when it
\* returned), whether it returned None, the shape label of the returned
\* dict, the stages it ran, and the resampled series (its length n and the
\* nan flags of its samples).
Outcome(ex, isnone, label, st, cnt, flags) ==
    [exc |-> ex, none |-> isnone, shape |-> label, stages |-> st, n |-> cnt,
     nan |-> flags]

\* lines 71-72: return None before anything else
NoSignal == Outcome("none", TRUE, "", StageFill, 0, <<>>)

\* a threshold one sample lower
TooShortLoose(n) == n < MinSamples - 1

\* lines 92-94: if N < 4: return None
TooShort(n) == n < MinSamples

\* lines 95-158, for the magnitudes yf of the transform and the fitted slope d
LabelOf(n, sgn, sp, d) ==
    Shape(HarmonicsOf(ZeroDC(sp), Xf(n, sgn), Xf(n, sgn)[ArgMax(ZeroDC(sp)) + 1]), d)

\* the slopes np.polyfit may return for the magnitudes yf
DecayFor(n, sgn, sp) ==
    DecayOf(HarmonicsOf(ZeroDC(sp), Xf(n, sgn), Xf(n, sgn)[ArgMax(ZeroDC(sp)) + 1]))

\* the labels lines 95-158 can give a resampled series of n samples
LabelsOf(n, sgn, flags) ==
    {LabelOf(n, sgn, p[1], p[2]) :
        p \in {q \in Spectra(n, flags) \X DecayValues :
                  q[2] \in DecayFor(n, sgn, q[1])}}

\* LabelsOf for the series without nan, tabulated by length and sign of fs
LabelTable ==
    {<<n, sgn, LabelsOf(n, sgn, <<>>)>> : n \in 0..MaxN, sgn \in {1, 0 - 1}}

LabelsAt(n, sgn, flags) ==
    IF n <= MaxN /\ \A j \in 1..Len(flags) : ~flags[j]
    THEN (CHOOSE r \in LabelTable : r[1] = n /\ r[2] = sgn)[3]
    ELSE LabelsOf(n, sgn, flags)

\* lines 160-172: the dict returned
Analysis(rs, label) == Outcome("none", FALSE, label, StageAll, rs.n, rs.nan)

\* rs is the outcome of resample_uniform, sgn the sign of fs
AnalyzeFrom(rs, sgn) ==
    IF rs.exc # "none"
    THEN {Outcome(rs.exc, FALSE, "", StageResample, rs.n, <<>>)}
    ELSE IF TooShort(rs.n)
    THEN {Outcome("none", TRUE, "", StageDetrend, rs.n, rs.nan)}
    ELSE {Analysis(rs, l) : l \in LabelsAt(rs.n, sgn, rs.nan)}

AnalyzeWith(t, fs) == AnalyzeFrom(resample_uniform(t, fs), fs.s)

\* analyze_signal without the early return of lines 71-72
analyze_signal_unguarded(t, xr) == AnalyzeWith(t, EstimateFs(t))

\* every outcome analyze_signal(t_ms, x_raw) can have
analyze_signal(t, xr) ==
    IF AllNaN(xr) THEN {NoSignal} ELSE AnalyzeWith(t, EstimateFs(t))

(***************************************************************************)
(* The run                                                                 *)
(***************************************************************************)
\* the channels out1, out2, out3 of the log
NumChannels == 3

VARIABLES
    pc,         \* where the run (or the stage under study) stands
    t_ms,       \* the timestamps parse_file returned, in ms
    outs,       \* the raw channels out1..out3 (numbers or '--')
    xs,         \* the numeric channels x1..x3 (to_numeric)
    results,    \* what analyze_signal returned, per channel analysed
    calls,      \* what each call of analyze_signal left behind
    printed,    \* the summary printed per channel
    saved,      \* whether plot_signals saved the plot
    status,     \* exit status of the process (NoStatus while it runs)
    exc,        \* the exception that ended the run ("none" if none)
    x_raw,      \* analyze_signal: the channel handed in
    x,          \* analyze_signal: the filled copy
    yf,         \* analyze_signal: magnitudes of rfft(x_u)
    N,          \* analyze_signal: len(x_u)
    fsign,      \* analyze_signal: the sign of fs
    mag,        \* analyze_signal: magnitudes with the DC bin zeroed
    freq,       \* analyze_signal: dominant frequency
    harmonics,  \* analyze_signal: the harmonic magnitudes
    decay_exp,  \* analyze_signal: the decay exponent
    shape       \* analyze_signal: the shape label

runVars == <<t_ms, outs, xs, results, calls, printed, saved, status, exc>>
fillVars == <<x_raw, x>>
specVars == <<yf, N, fsign, mag, freq, harmonics, decay_exp, shape>>
vars == <<pc, runVars, fillVars, specVars>>

NoStatus == 0 - 1

RunIdle ==
    /\ t_ms = <<>> /\ outs = <<>> /\ xs = <<>> /\ results = <<>>
    /\ calls = <<>> /\ printed = <<>> /\ saved = FALSE
    /\ status = NoStatus /\ exc = "none"
FillIdle == x_raw = <<>> /\ x = <<>>
SpecIdle ==
    /\ yf = <<>> /\ N = 0 /\ fsign = 1 /\ mag = <<>> /\ freq = 0
    /\ harmonics = <<>> /\ decay_exp = 0 /\ shape = "unknown"

(***************************************************************************)
(* Inputs                                                                  *)
(***************************************************************************)
\* the spacing of the log, in ms per tick
Steps == {100, 333}

RECURSIVE FromDiffs(_, _)
\* the timestamps 0, 0 + step * d[1], ... (only differences are read:
\* lines 58 and 82)
FromDiffs(d, step) ==
    IF Len(d) = 0 THEN <<0>>
    ELSE LET p == FromDiffs(SubSeq(d, 1, Len(d) - 1), step)
         IN  Append(p, p[Len(p)] + step * d[Len(d)])

\* no timestamp at all, or up to MaxLen of them, repeated and decreasing
\* ones included
TimestampSeries ==
    {<<>>} \cup
    {FromDiffs(d, st) :
        d \in UNION {[1..n -> (0 - 1)..MaxDiff] : n \in 0..(MaxLen - 1)},
        st \in Steps}

\* a channel of n raw values: all missing, or every second one missing
AllMissing(n) == [i \in 1..n |-> Dash]
Gappy(n) == [i \in 1..n |-> IF i % 2 = 0 THEN Dash ELSE i % (MaxVal + 1)]
RawChannels(n) == {AllMissing(n), Gappy(n)}

Init ==
    /\ pc = "main"
    /\ t_ms \in TimestampSeries
    /\ outs \in [1..NumChannels -> RawChannels(Len(t_ms))]
    /\ xs = <<>> /\ results = <<>> /\ calls = <<>> /\ printed = <<>>
    /\ saved = FALSE /\ status = NoStatus /\ exc = "none"
    /\ FillIdle /\ SpecIdle

(***************************************************************************)
(* main (lines 197-235)                                                    *)
(***************************************************************************)
\* lines 202-214: no timestamps -> return 1; else the numeric channels
MainStart ==
    /\ pc = "main"
    /\ IF Len(t_ms) = 0
       THEN /\ status' = 1
            /\ pc' = "done"
            /\ xs' = xs
       ELSE /\ xs' = [i \in 1..NumChannels |-> to_numeric(outs[i])]
            /\ pc' = "loop"
            /\ status' = status
    /\ UNCHANGED <<t_ms, outs, results, calls, printed, saved, exc>>
    /\ UNCHANGED <<fillVars, specVars>>

\* a call returned, or raised: an exception nobody catches ends the process
\* with status 1
Collect(a) ==
    /\ calls' = Append(calls, a)
    /\ IF a.exc = "none"
       THEN /\ results' = Append(results, [none |-> a.none, shape |-> a.shape])
            /\ pc' = pc /\ exc' = exc /\ status' = status
       ELSE /\ exc' = a.exc /\ status' = 1 /\ pc' = "done"
            /\ results' = results

\* lines 217-219: r = analyze_signal(t_ms, x); results.append(r)
AnalyzeNext ==
    /\ pc = "loop"
    /\ Len(results) < NumChannels
    /\ \E a \in analyze_signal(t_ms, xs[Len(results) + 1]) : Collect(a)
    /\ UNCHANGED <<t_ms, outs, xs, printed, saved>>
    /\ UNCHANGED <<fillVars, specVars>>

\* lines 222-232
PrintSummary ==
    /\ pc = "loop"
    /\ Len(results) = NumChannels
    /\ printed' = [i \in 1..NumChannels |->
                      IF results[i].none THEN "no signal" ELSE "metrics"]
    /\ pc' = "plot"
    /\ UNCHANGED <<t_ms, outs, xs, results, calls, saved, status, exc>>
    /\ UNCHANGED <<fillVars, specVars>>

\* res['t'] on a result that is None raises TypeError
PlotFails(rs) == \E i \in 1..Len(rs) : rs[i].none

\* line 234, lines 175-194
PlotSignals ==
    /\ pc = "plot"
    /\ IF PlotFails(results)
       THEN exc' = "TypeError" /\ status' = 1 /\ pc' = "done" /\ saved' = saved
       ELSE saved' = TRUE /\ pc' = "return" /\ exc' = exc /\ status' = status
    /\ UNCHANGED <<t_ms, outs, xs, results, calls, printed>>
    /\ UNCHANGED <<fillVars, specVars>>

\* line 235: return 0
MainReturn ==
    /\ pc = "return"
    /\ status' = 0
    /\ pc' = "done"
    /\ UNCHANGED <<t_ms, outs, xs, results, calls, printed, saved, exc>>
    /\ UNCHANGED <<fillVars, specVars>>

Next == MainStart \/ AnalyzeNext \/ PrintSummary \/ PlotSignals \/ MainReturn

Spec == Init /\ [][Next]_vars

(***************************************************************************)
(* Gap filling on its own                                                  *)
(***************************************************************************)
\* every numeric channel of length 1..MaxLen
Channels ==
    UNION {[1..n -> {NaN} \cup {v * Den : v \in 0..MaxVal}] : n \in 1..MaxLen}

InitFill ==
    /\ pc = "fill"
    /\ x_raw \in Channels
    /\ x = <<>>
    /\ RunIdle /\ SpecIdle

\* lines 68-79: NoSignal on an all-missing channel, else the filled copy
GapFill ==
    /\ pc = "fill"
    /\ IF AllNaN(x_raw)
       THEN pc' = "ret" /\ x' = x
       ELSE pc' = "rate" /\ x' = FillGaps(x_raw)
    /\ UNCHANGED <<x_raw, runVars, specVars>>

NextFill == GapFill

SpecFill == InitFill /\ [][NextFill]_vars

(***************************************************************************)
(* Spectrum, harmonics, decay and shape on their own                       *)
(***************************************************************************)
InitSpectrum ==
    /\ pc = "fft"
    /\ N \in MinSamples..MaxN
    /\ fsign \in {1, 0 - 1}
    /\ yf \in Spectra(N, <<>>) \cup Spectra(N, <<TRUE>>)
    /\ mag = <<>> /\ freq = 0 /\ harmonics = <<>> /\ decay_exp = 0
    /\ shape = "unknown"
    /\ RunIdle /\ FillIdle

\* lines 97-101
PeakSearch ==
    /\ pc = "fft"
    /\ mag' = ZeroDC(yf)
    /\ freq' = Xf(N, fsign)[ArgMax(ZeroDC(yf)) + 1]
    /\ pc' = "harmonics"
    /\ UNCHANGED <<yf, N, fsign, harmonics, decay_exp, shape, runVars, fillVars>>

\* lines 109-118
HarmonicStage ==
    /\ pc = "harmonics"
    /\ harmonics' = HarmonicsOf(mag, Xf(N, fsign), freq)
    /\ pc' = "decay"
    /\ UNCHANGED <<yf, N, fsign, mag, freq, decay_exp, shape, runVars, fillVars>>

\* lines 120-131
DecayFit ==
    /\ pc = "decay"
    /\ decay_exp' \in DecayOf(harmonics)
    /\ pc' = "shape"
    /\ UNCHANGED <<yf, N, fsign, mag, freq, harmonics, shape, runVars, fillVars>>

\* lines 133-158
Classify ==
    /\ pc = "shape"
    /\ shape' = Shape(harmonics, decay_exp)
    /\ pc' = "ret"
    /\ UNCHANGED <<yf, N, fsign, mag, freq, harmonics, decay_exp, runVars, fillVars>>

NextSpectrum == PeakSearch \/ HarmonicStage \/ DecayFit \/ Classify

SpecSpectrum == InitSpectrum /\ [][NextSpectrum]_vars

(***************************************************************************)
(* The shape heuristic on its own: any 8 magnitudes, any slope             *)
(***************************************************************************)
\* odd harmonics at 1, 1/3, 1/5, 1/7 of the fundamental, even ones 0
SquareWave == <<105, 0, 35, 0, 21, 0, 15, 0>>

InitClassify ==
    /\ pc = "shape"
    /\ harmonics \in [1..NumHarmonics -> 0..MaxMag] \cup {SquareWave}
    /\ decay_exp \in DecayValues
    /\ yf = <<>> /\ N = 0 /\ fsign = 1 /\ mag = <<>> /\ freq = 0
    /\ shape = "unknown"
    /\ RunIdle /\ FillIdle

NextClassify == Classify

SpecClassify == InitClassify /\ [][NextClassify]_vars
(***************************************************************************)
(* Properties                                                              *)
(***************************************************************************)
Labels == {"flat", "sine-like", "square-like", "triangle-like",
           "sawtooth-like", "complex/unknown"}

Ended == pc = "done"

\* C1: a run with at least one timestamp in which every channel's analysis
\* returned (a ChannelAnalysis or None) reports every channel, renders the
\* results and ends with status 0.
C1_AbsentResultsHandled ==
    (Ended /\ Len(t_ms) >= 1 /\ Len(results) = NumChannels)
        => (status = 0 /\ saved /\ Len(printed) = NumChannels)

\* C2: no call of analyze_signal ends in an exception, whatever the
\* timestamps (repeated, decreasing), so every run with a timestamp analyses
\* all its channels.
C2_NoExceptionFromAnalysis ==
    /\ \A i \in 1..Len(calls) : calls[i].exc = "none"
    /\ (Ended /\ Len(t_ms) >= 1) => Len(calls) = NumChannels

C4_InsufficientSamples ==
    \A i \in 1..Len(calls) :
        (~AllNaN(xs[i]) /\ calls[i].exc = "none") =>
            /\ Len(calls[i].nan) = calls[i].n
            /\ calls[i].n < 4 =>
                  /\ calls[i].none /\ results[i].none
                  /\ calls[i].stages = StageDetrend
                  /\ calls[i].shape = ""
            /\ calls[i].n >= 4 =>
                  /\ ~calls[i].none /\ ~results[i].none
                  /\ calls[i].stages = StageAll
                  /\ results[i].shape \in Labels

C4_Witness ==
    /\ Len(calls) >= 2
    /\ ~AllNaN(xs[2])
    /\ calls[2].n = MinSamples
    /\ calls[2].stages = StageAll
    /\ ~results[2].none
    /\ results[2].shape = "complex/unknown"

\* C6: for timestamps evenly spaced by d > 0 ms the resampled series has as
\* many samples as there are timestamps.
EvenlySpaced(t) ==
    /\ Len(t) >= 2
    /\ t[2] - t[1] > 0
    /\ \A i \in 1..(Len(t) - 1) : t[i + 1] - t[i] = t[2] - t[1]

C6_EvenSpacingKeepsCount ==
    \A i \in 1..Len(calls) :
        (EvenlySpaced(t_ms) /\ ~AllNaN(xs[i])) =>
            (calls[i].exc = "none" /\ calls[i].n = Len(t_ms))

\* C10: for non-decreasing timestamps (two or more, positive median step)
\* the uniform grid is non-empty and lies within the original time range, so
\* no resampled sample is nan.
NonDecreasing(t) == \A i \in 1..(Len(t) - 1) : t[i] <= t[i + 1]

PositiveMedian(t) == Len(t) >= 2 /\ FLess(FZero, Median(Diff(t)))

C10_GridWithinRange ==
    \A i \in 1..Len(calls) :
        (NonDecreasing(t_ms) /\ PositiveMedian(t_ms) /\ ~AllNaN(xs[i])) =>
            /\ calls[i].exc = "none"
            /\ calls[i].n >= 1
            /\ \A j \in 1..Len(calls[i].nan) : ~calls[i].nan[j]

\* C5: the filled channel has the length of the raw one and no missing
\* marker; valid samples are unchanged; a missing sample between two valid
\* ones lies on the line through the nearest valid sample on each side, by
\* index; a missing sample before the first (after the last) valid one takes
\* the value of that one; [1, missing, 3] becomes [1, 2, 3].
Valid(v) == {i \in 1..Len(v) : v[i] # NaN}

Below(v, i) == {j \in Valid(v) : j < i}
Above(v, i) == {j \in Valid(v) : j > i}
MaxOf(S) == CHOOSE m \in S : \A o \in S : o <= m
MinOf(S) == CHOOSE m \in S : \A o \in S : m <= o

OnLine(v, w, i, l, r) == w[i] * (r - l) = v[l] * (r - i) + v[r] * (i - l)

C5_GapFiller ==
    (pc = "rate") =>
        /\ Len(x) = Len(x_raw)
        /\ \A i \in 1..Len(x) : x[i] # NaN
        /\ \A i \in Valid(x_raw) : x[i] = x_raw[i]
        /\ \A i \in (1..Len(x_raw)) \ Valid(x_raw) :
              IF Below(x_raw, i) = {} THEN x[i] = x_raw[MinOf(Valid(x_raw))]
              ELSE IF Above(x_raw, i) = {} THEN x[i] = x_raw[MaxOf(Valid(x_raw))]
              ELSE OnLine(x_raw, x, i, MaxOf(Below(x_raw, i)), MinOf(Above(x_raw, i)))
        /\ x_raw = <<1 * Den, NaN, 3 * Den>> => x = <<1 * Den, 2 * Den, 3 * Den>>

C5_Witness ==
    /\ pc = "rate"
    /\ x_raw = <<NaN, 1 * Den, NaN, 3 * Den>>
    /\ x = <<1 * Den, 1 * Den, 2 * Den, 3 * Den>>

\* C7: the label is the first matching row of the decision table over the 8
\* harmonic magnitudes and the decay exponent d (in units of 0.1); it is one
\* of the six labels, never the placeholder; a square-wave vector is labelled
\* square-like or triangle-like.
RowFlat(h) == \A k \in 1..NumHarmonics : h[k] <= 0
RowSine(h) == \A k \in 2..NumHarmonics : 5 * h[k] < h[1] + Eps
OddEnergy(h) == h[1] + h[3] + h[5] + h[7]
EvenEnergy(h) == h[2] + h[4] + h[6] + h[8]

C7_DecisionTable ==
    (pc = "ret") =>
        /\ shape \in Labels
        /\ RowFlat(harmonics) => shape = "flat"
        /\ (~RowFlat(harmonics) /\ RowSine(harmonics)) => shape = "sine-like"
        /\ (~RowFlat(harmonics) /\ ~RowSine(harmonics)) =>
              IF OddEnergy(harmonics) > 2 * EvenEnergy(harmonics)
              THEN shape = (IF decay_exp < 0 - 15 THEN "triangle-like"
                            ELSE "square-like")
              ELSE shape = (IF decay_exp < 0 - 15 THEN "triangle-like"
                            ELSE IF decay_exp < 0 - 7 THEN "sawtooth-like"
                            ELSE "complex/unknown")
        /\ harmonics = SquareWave => shape \in {"square-like", "triangle-like"}

C7_Witness ==
    /\ pc = "ret"
    /\ harmonics = SquareWave
    /\ decay_exp = 0 - 8
    /\ shape = "square-like"

\* C8: when every magnitude is zero once the DC bin is zeroed, the dominant
\* frequency is 0, the 8 harmonics are 0, the decay exponent is 0 and the
\* label is flat.
AfterPeak == pc \in {"harmonics", "decay", "shape", "ret"}
AfterHarmonics == pc \in {"decay", "shape", "ret"}

C8_ZeroSpectrumIsFlat ==
    (AfterPeak /\ N >= MinSamples /\ \A j \in 1..Len(mag) : mag[j] = 0) =>
        /\ freq = 0
        /\ AfterHarmonics => harmonics = [k \in 1..NumHarmonics |-> 0]
        /\ pc \in {"shape", "ret"} => decay_exp = 0
        /\ pc = "ret" => shape = "flat"

C8_Witness ==
    /\ pc = "ret"
    /\ yf[1] > 0
    /\ \A j \in 1..Len(mag) : mag[j] = 0
    /\ shape = "flat"

\* C9: with a dominant frequency > 0 there are exactly 8 harmonics; the k-th
\* is the magnitude, in the spectrum with the DC bin zeroed, of the bin
\* nearest to k times the dominant frequency among all bins (the lowest index
\* on a tie); the first is the magnitude of the dominant bin, the maximum.
Nearest(xf, j, target) ==
    /\ \A i \in 1..Len(xf) : Abs(xf[j] - target) <= Abs(xf[i] - target)
    /\ \A i \in 1..(j - 1) : Abs(xf[i] - target) > Abs(xf[j] - target)

C9_HarmonicExtraction ==
    (AfterHarmonics /\ N >= MinSamples /\ freq > 0) =>
        /\ Len(harmonics) = 8
        /\ Len(mag) = (N \div 2) + 1
        /\ mag[1] = 0 /\ \A j \in 2..Len(mag) : mag[j] = yf[j]
        /\ \A k \in 1..8 :
              \E j \in 1..Len(mag) :
                  /\ Nearest(Xf(N, fsign), j, k * freq)
                  /\ harmonics[k] = mag[j]
        /\ \E p \in 1..Len(mag) :
              /\ Xf(N, fsign)[p] = freq
              /\ harmonics[1] = mag[p]
              /\ ~HasNaN(mag) => \A j \in 1..Len(mag) : mag[j] <= mag[p]

C9_Witness ==
    /\ pc = "ret"
    /\ N = 8
    /\ mag = <<0, 1, 2, 0, 1>>
    /\ freq = 2
    /\ harmonics = <<2, 1, 1, 1, 1, 1, 1, 1>>
====
